---- MODULE Spec2Model ----
(***************************************************************************)
(* The subscriber lifecycle of django-newsfeed (newsfeed/models.py):       *)
(* token issue and rotation, expiry, verify / unsubscribe, the throttled   *)
(* dispatch of the verification email, and the subscribe / unsubscribe /   *)
(* subscription-confirm requests that drive them; and the editorial        *)
(* tables (Issue, Post, Newsletter) with the issue-list and issue-detail   *)
(* pages that read them.                                                   *)
(*                                                                         *)
(* Time is counted in minutes.  A DateTimeField is <<>> when it is None    *)
(* and <<t>> when it holds the instant t.  The Subscriber table is a       *)
(* function from the stored e-mail addresses (unique) to rows.             *)
(***************************************************************************)
EXTENDS Integers, Sequences, FiniteSets, TLC

VARIABLES
    db,         \* the Subscriber table
    now,        \* timezone.now(), in minutes
    mailedAt,   \* the transport: when each address was last mailed
    confirmed,  \* the stored tokens a subscription was confirmed with
    last,       \* the last call or request and its result
    issues,     \* the Issue table, by issue_number (unique)
    posts,      \* the Post table, in the order of creation (by id)
    newsletters,\* the Newsletter table, by id
    page,       \* the last page served from the editorial tables
    requests,   \* the requests in flight: position and in-memory subscriber
    outbox      \* the e-mails the requests in flight dispatched, in order

vars == <<db, now, mailedAt, confirmed, last,
          issues, posts, newsletters, page, requests, outbox>>

\* the requests that run send_verification_email step by step
inflight == <<requests, outbox>>

\* the editorial tables and the page served from them
content == <<issues, posts, newsletters, page>>

\* ------------------------------------------------------------- bounds
\* uuid.uuid4() draws from 1..MaxTokens
MaxTokens == 3
\* the clock runs over MaxDays days
MaxDays == 1
\* at most MaxPosts posts are created
MaxPosts == 2
\* at most MaxNewsletters newsletters exist at a time
MaxNewsletters == 1
\* at most MaxRequests requests run send_verification_email interleaved
MaxRequests == 2

\* ---------------------------------------------------------- constants
\* timezone.timedelta(minutes=5)
ThrottleMinutes == 5
\* settings.SUBSCRIPTION_EMAIL_CONFIRMATION_EXPIRE_DAYS
ExpireDays == 1
\* minutes in timezone.timedelta(days=1)
MinutesPerDay == 1440
\* the issue list's page size
PaginateBy == 15

Tokens == 1..MaxTokens
Emails == {"a@test.com", "b@test.com"}
InvalidEmails == {"invalid_email"}
Inputs == Emails \cup InvalidEmails
\* the instants at which calls and requests arrive: the start, the throttle
\* boundary (5 and 6 minutes after it) and, day by day, the minute before
\* the day ends and the minute it ends (the expiry boundary)
Instants ==
    {0, ThrottleMinutes, ThrottleMinutes + 1}
        \cup {k * MinutesPerDay - 1 : k \in 1..MaxDays}
        \cup {k * MinutesPerDay : k \in 1..MaxDays}

NoDate == <<>>

\* --------------------------------------------------- Subscriber (model)
\* a new row: token drawn by uuid.uuid4, the flags and the date as given
\* (the field defaults are FALSE, FALSE and None)
NewSubscriber(e, t, v, s, d) ==
    [email_address |-> e, token |-> t, verified |-> v, subscribed |-> s,
     verification_sent_date |-> d]

\* objects.filter(token=t).exists()
TokenExists(d, t) == \E e \in DOMAIN d : d[e].token = t

\* the unique constraints of email_address and token: an insert that would
\* break one raises IntegrityError
InsertAllowed(d, e, t) == e \notin DOMAIN d /\ ~TokenExists(d, t)

Insert(d, row) == d @@ (row.email_address :> row)

\* faulty variant: the expiry instant itself counts as not expired
token_expired_strict(self, clock) ==
    IF self.verification_sent_date = NoDate
    THEN TRUE
    ELSE self.verification_sent_date[1] + ExpireDays * MinutesPerDay < clock

\* faulty variant: a subscriber never mailed counts as not expired
token_expired_unset_ok(self, clock) ==
    IF self.verification_sent_date = NoDate
    THEN FALSE
    ELSE self.verification_sent_date[1] + ExpireDays * MinutesPerDay <= clock

\* Subscriber.token_expired
token_expired(self, clock) ==
    IF self.verification_sent_date = NoDate
    THEN TRUE
    ELSE LET expiration_date ==
                 self.verification_sent_date[1] + ExpireDays * MinutesPerDay
         IN  expiration_date <= clock

\* faulty variant: one draw, never drawn again
ResetTokenDrawsOnce(d) == Tokens

\* the values reset_token's loop can end with: a draw that no stored
\* subscriber (the subscriber itself included) holds
ResetTokenDraws(d) == {t \in Tokens : ~TokenExists(d, t)}

\* faulty variant: the new token is not saved
reset_token_unsaved(d, e, t) == d

\* Subscriber.reset_token, with t the value the loop ended with
reset_token(d, e, t) == [d EXCEPT ![e].token = t]

\* faulty variant: verify without the expiry test
verify_unchecked(d, e, clock) ==
    [db |-> [d EXCEPT ![e].verified = TRUE, ![e].subscribed = TRUE],
     ret |-> "True"]

\* faulty variant: the flags are set before the expiry test
verify_marks_first(d, e, clock) ==
    [db |-> [d EXCEPT ![e].verified = TRUE, ![e].subscribed = TRUE],
     ret |-> IF ~token_expired(d[e], clock) THEN "True" ELSE "None"]

\* faulty variant: a successful verify clears verification_sent_date
verify_consumes(d, e, clock) ==
    IF ~token_expired(d[e], clock)
    THEN [db |-> [d EXCEPT ![e].verified = TRUE, ![e].subscribed = TRUE,
                           ![e].verification_sent_date = NoDate],
          ret |-> "True"]
    ELSE [db |-> d, ret |-> "None"]

\* Subscriber.verify: the table after it and what it returns
verify(d, e, clock) ==
    IF ~token_expired(d[e], clock)
    THEN [db |-> [d EXCEPT ![e].verified = TRUE, ![e].subscribed = TRUE],
          ret |-> "True"]
    ELSE [db |-> d, ret |-> "None"]

\* faulty variant: unsubscribe that leaves verified set
unsubscribe_keeps_verified(d, e) ==
    IF d[e].subscribed
    THEN [db |-> [d EXCEPT ![e].subscribed = FALSE], ret |-> "True"]
    ELSE [db |-> d, ret |-> "None"]

\* faulty variant: unsubscribe without the test of subscribed
unsubscribe_unconditional(d, e) ==
    [db |-> [d EXCEPT ![e].subscribed = FALSE, ![e].verified = FALSE],
     ret |-> "True"]

\* Subscriber.unsubscribe: the table after it and what it returns
unsubscribe(d, e) ==
    IF d[e].subscribed
    THEN [db |-> [d EXCEPT ![e].subscribed = FALSE, ![e].verified = FALSE],
          ret |-> "True"]
    ELSE [db |-> d, ret |-> "None"]

\* Subscriber.get_verification_url
get_verification_url(self) ==
    <<"newsletter_subscribe_confirm", self.token>>

NoUrl == <<>>

\* faulty variant: the throttle window is open at its boundary
Throttled_exclusive(self, clock) ==
    /\ self.verification_sent_date # NoDate
    /\ self.verification_sent_date[1] > clock - ThrottleMinutes

\* the condition of the early return of send_verification_email
Throttled(self, clock) ==
    LET minutes_before == clock - ThrottleMinutes
    IN  /\ self.verification_sent_date # NoDate
        /\ self.verification_sent_date[1] >= minutes_before

\* faulty variant: the URL is built before the token is rotated
send_verification_email_url_first(d, e, created, t, clock) ==
    IF Throttled(d[e], clock)
    THEN [db |-> d, mailed |-> FALSE, url |-> NoUrl]
    ELSE LET url == get_verification_url(d[e])
             d1 == IF ~created THEN reset_token(d, e, t) ELSE d
             d2 == [d1 EXCEPT ![e].verification_sent_date = <<clock>>]
         IN  [db |-> d2, mailed |-> TRUE, url |-> url]

\* faulty variant: the token is rotated before the throttle test
send_verification_email_rotates_first(d, e, created, t, clock) ==
    LET d1 == IF ~created THEN reset_token(d, e, t) ELSE d
    IN  IF Throttled(d[e], clock)
        THEN [db |-> d1, mailed |-> FALSE, url |-> NoUrl]
        ELSE LET d2 == [d1 EXCEPT ![e].verification_sent_date = <<clock>>]
             IN  [db |-> d2, mailed |-> TRUE,
                  url |-> get_verification_url(d2[e])]

\* Subscriber.send_verification_email, with t the token reset_token would
\* end with: the table after it, whether an e-mail was handed to the
\* transport, and the URL in it
send_verification_email(d, e, created, t, clock) ==
    IF Throttled(d[e], clock)
    THEN [db |-> d, mailed |-> FALSE, url |-> NoUrl]
    ELSE LET d1 == IF ~created THEN reset_token(d, e, t) ELSE d
             d2 == [d1 EXCEPT ![e].verification_sent_date = <<clock>>]
         IN  [db |-> d2, mailed |-> TRUE, url |-> get_verification_url(d2[e])]

\* --------------------------------------------------------------- result
\* the last call or request: its name and arguments (for a call on a
\* subscriber, token is the token it held before), what it returned or
\* answered, whether it dispatched an e-mail, the URL in it and the instant
\* of the e-mail dispatched to the address before this one
Result(op, e, token, created, ajax, ret, status, message, mailed, url) ==
    [op |-> op, email |-> e, token |-> token, created |-> created,
     ajax |-> ajax, ret |-> ret, status |-> status, message |-> message,
     mailed |-> mailed, url |-> url,
     prevMail |-> IF mailed THEN mailedAt[e] ELSE NoDate]

Idle == Result("", "", 0, FALSE, FALSE, "None", 0, "", FALSE, NoUrl)

\* the tokens in use
Stored(d) == {d[e].token : e \in DOMAIN d}

\* the transport (send_subscription_verification_email, mocked): the
\* instant of the last e-mail it was handed for each address
Deliver(e, r) ==
    IF r.mailed THEN [mailedAt EXCEPT ![e] = <<now>>] ELSE mailedAt

\* a page served from the editorial tables: the view, the issue_number of
\* its url (0 when it has none), the status, the issue in its context
\* (<<>> for none), its object_list (issue numbers or post ids, in order),
\* and for a deletion the number of rows it deleted
Page(view, n, status, issue, object_list, deleted) ==
    [view |-> view, issue_number |-> n, status |-> status, issue |-> issue,
     object_list |-> object_list, deleted |-> deleted]

NoPage == Page("", 0, 0, <<>>, <<>>, 0)

\* the requests that can be in flight together
RequestIds == 1..MaxRequests

\* a request: where it stands in send_verification_email, its in-memory
\* Subscriber (self) and the argument created
Request(pc, self, created) == [pc |-> pc, self |-> self, created |-> created]

\* a request that has not loaded a subscriber yet
NoRequest == Request("idle", NewSubscriber("", 0, FALSE, FALSE, NoDate), FALSE)

Init ==
    /\ db = <<>>
    /\ now = 0
    /\ mailedAt = [e \in Emails |-> NoDate]
    /\ confirmed = {}
    /\ last = Idle
    /\ issues = <<>>
    /\ posts = <<>>
    /\ newsletters = <<>>
    /\ page = NoPage
    /\ requests = [r \in RequestIds |-> NoRequest]
    /\ outbox = <<>>

\* the clock advances to a later instant
Advance(t) ==
    /\ t > now
    /\ now' = t
    /\ last' = Idle
    /\ page' = NoPage
    /\ UNCHANGED <<db, mailedAt, confirmed, issues, posts, newsletters>>
    /\ UNCHANGED inflight

\* ------------------------------------------------- calls on the model
\* a Subscriber is created for a new address with the field defaults; the
\* token is the default uuid.uuid4 draw t
Create(e, t) ==
    /\ e \notin DOMAIN db
    /\ IF InsertAllowed(db, e, t)
       THEN /\ db' = Insert(db, NewSubscriber(e, t, FALSE, FALSE, NoDate))
            /\ last' = Result("create", e, t, TRUE, FALSE, "None", 0, "",
                              FALSE, NoUrl)
       ELSE /\ db' = db
            /\ last' = Result("create", e, t, FALSE, FALSE, "IntegrityError",
                              0, "", FALSE, NoUrl)
    /\ UNCHANGED <<now, mailedAt, confirmed>>

    /\ UNCHANGED <<content, inflight>>
\* subscriber.token_expired()
TokenExpired(e) ==
    /\ e \in DOMAIN db
    /\ last' = Result("token_expired", e, db[e].token, FALSE, FALSE,
                      IF token_expired(db[e], now) THEN "True" ELSE "False",
                      0, "", FALSE, NoUrl)
    /\ UNCHANGED <<db, now, mailedAt, confirmed>>

    /\ UNCHANGED <<content, inflight>>
\* subscriber.reset_token()
ResetToken(e) ==
    /\ e \in DOMAIN db
    /\ \E t \in ResetTokenDraws(db) :
         /\ db' = reset_token(db, e, t)
         /\ last' = Result("reset_token", e, t, FALSE, FALSE, "None", 0, "",
                           FALSE, NoUrl)
    /\ confirmed' = confirmed \cap Stored(db')
    /\ UNCHANGED <<now, mailedAt>>

    /\ UNCHANGED <<content, inflight>>
\* subscriber.verify()
Verify(e) ==
    /\ e \in DOMAIN db
    /\ LET r == verify(db, e, now)
       IN  /\ db' = r.db
           /\ last' = Result("verify", e, db[e].token, FALSE, FALSE, r.ret,
                             0, "", FALSE, NoUrl)
    /\ UNCHANGED <<now, mailedAt, confirmed>>

    /\ UNCHANGED <<content, inflight>>
\* subscriber.unsubscribe()
Unsubscribe(e) ==
    /\ e \in DOMAIN db
    /\ LET r == unsubscribe(db, e)
       IN  /\ db' = r.db
           /\ last' = Result("unsubscribe", e, db[e].token, FALSE, FALSE,
                             r.ret, 0, "", FALSE, NoUrl)
    /\ UNCHANGED <<now, mailedAt, confirmed>>

    /\ UNCHANGED <<content, inflight>>
\* subscriber.send_verification_email(created)
SendVerificationEmail(e, created) ==
    /\ e \in DOMAIN db
    /\ \E t \in ResetTokenDraws(db) :
         LET r == send_verification_email(db, e, created, t, now)
         IN  /\ db' = r.db
             /\ mailedAt' = Deliver(e, r)
             /\ last' = Result("send_verification_email", e, db[e].token,
                               created, FALSE, "None", 0, "", r.mailed, r.url)
    /\ confirmed' = confirmed \cap Stored(db')
    /\ now' = now

    /\ UNCHANGED <<content, inflight>>
\* ------------------------------------------------------- the requests
\* the e-mail form's validation
IsValidEmail(x) == x \in Emails

\* the answer to a request whose form does not validate: the form is
\* rendered again, or its errors are returned with 400 to an AJAX request
InvalidForm(op, x, ajax) ==
    Result(op, x, 0, FALSE, ajax, "False", IF ajax THEN 400 ELSE 200,
           "Enter a valid email address.", FALSE, NoUrl)

\* the answer to a request whose form validates: a redirect to the issue
\* list with a message, or the message and success as JSON
FormAnswer(op, x, created, ajax, success, message, mailed, url) ==
    Result(op, x, 0, created, ajax, IF success THEN "True" ELSE "False",
           IF ajax THEN 200 ELSE 302, message, mailed, url)

\* the message of a subscribe request that succeeds
ThankYouMessage ==
    "Thank you for subscribing! Please check your email inbox to confirm your subscription to start receiving newsletters."

\* faulty variant: the subscribe request takes no stored subscriber as subscribed
AlreadySubscribed_never(d, x) == FALSE

\* whether the address x is that of a subscriber who is subscribed
AlreadySubscribed(d, x) == x \in DOMAIN d /\ d[x].subscribed

\* the subscribe request for the address x
SubscribeView(x, ajax) ==
    /\ IF ~IsValidEmail(x)
       THEN /\ last' = InvalidForm("subscribe", x, ajax)
            /\ UNCHANGED <<db, mailedAt>>
       ELSE IF x \in DOMAIN db
       THEN IF AlreadySubscribed(db, x)
            THEN /\ last' = FormAnswer("subscribe", x, FALSE, ajax, FALSE,
                              "You have already subscribed to the newsletter.",
                              FALSE, NoUrl)
                 /\ UNCHANGED <<db, mailedAt>>
            ELSE \E t \in ResetTokenDraws(db) :
                   LET r == send_verification_email(db, x, FALSE, t, now)
                   IN  /\ db' = r.db
                       /\ mailedAt' = Deliver(x, r)
                       /\ last' = FormAnswer("subscribe", x, FALSE, ajax, TRUE,
                                    ThankYouMessage, r.mailed,
                                    r.url)
       ELSE \E t \in Tokens :
              IF InsertAllowed(db, x, t)
              THEN LET d1 == Insert(db, NewSubscriber(x, t, FALSE, FALSE,
                                                      NoDate))
                       r == send_verification_email(d1, x, TRUE, t, now)
                   IN  /\ db' = r.db
                       /\ mailedAt' = Deliver(x, r)
                       /\ last' = FormAnswer("subscribe", x, TRUE, ajax, TRUE,
                                    ThankYouMessage, r.mailed,
                                    r.url)
              ELSE /\ last' = Result("subscribe", x, t, FALSE, ajax,
                                     "IntegrityError", 500, "", FALSE, NoUrl)
                   /\ UNCHANGED <<db, mailedAt>>
    /\ confirmed' = confirmed \cap Stored(db')
    /\ now' = now

    /\ UNCHANGED <<content, inflight>>
\* the unsubscribe request for the address x: the subscriber of that address
\* is unsubscribed, and the request succeeds when unsubscribe() does
UnsubscribeView(x, ajax) ==
    /\ IF ~IsValidEmail(x)
       THEN /\ last' = InvalidForm("unsubscribe", x, ajax)
            /\ db' = db
       ELSE IF x \in DOMAIN db /\ unsubscribe(db, x).ret = "True"
       THEN LET r == unsubscribe(db, x)
            IN  /\ db' = r.db
                /\ last' = FormAnswer("unsubscribe", x, FALSE, ajax, TRUE,
                     "You have successfully unsubscribed from the newsletter.",
                     FALSE, NoUrl)
       ELSE /\ db' = db
            /\ last' = FormAnswer("unsubscribe", x, FALSE, ajax, FALSE,
                     "Subscriber with this email address does not exist.",
                     FALSE, NoUrl)
    /\ UNCHANGED <<now, mailedAt, confirmed>>

    /\ UNCHANGED <<content, inflight>>
\* the subscribers the subscription-confirm request looks the token up in:
\* those not verified yet
Unverified(d, t) == {e \in DOMAIN d : d[e].token = t /\ ~d[e].verified}

\* the subscription-confirm request for the token t
ConfirmView(t) ==
    /\ IF Unverified(db, t) = {}
       THEN /\ last' = Result("confirm", "", t, FALSE, FALSE, "None", 404,
                              "", FALSE, NoUrl)
            /\ UNCHANGED <<db, confirmed>>
       ELSE LET e == CHOOSE x \in Unverified(db, t) : TRUE
                r == verify(db, e, now)
            IN  IF r.ret = "True"
                THEN /\ db' = r.db
                     /\ confirmed' = confirmed \cup {t}
                     /\ last' = Result("confirm", e, t, FALSE, FALSE, r.ret,
                                       200, "", FALSE, NoUrl)
                ELSE /\ last' = Result("confirm", e, t, FALSE, FALSE, r.ret,
                                       404, "", FALSE, NoUrl)
                     /\ UNCHANGED <<db, confirmed>>
    /\ UNCHANGED <<now, mailedAt>>

    /\ UNCHANGED <<content, inflight>>
\* the calls on the model, at any instants
Next ==
    \/ \E t \in Instants : Advance(t)
    \/ \E e \in Emails, t \in Tokens : Create(e, t)
    \/ \E e \in Emails : TokenExpired(e)
    \/ \E e \in Emails : ResetToken(e)
    \/ \E e \in Emails : Verify(e)
    \/ \E e \in Emails : Unsubscribe(e)
    \/ \E e \in Emails, created \in BOOLEAN : SendVerificationEmail(e, created)

Spec == Init /\ [][Next]_vars

\* the requests of visitors, at any instants, on a table that starts empty
NextRequests ==
    \/ \E t \in Instants : Advance(t)
    \/ \E x \in Inputs, ajax \in BOOLEAN : SubscribeView(x, ajax)
    \/ \E x \in Inputs, ajax \in BOOLEAN : UnsubscribeView(x, ajax)
    \/ \E t \in Tokens : ConfirmView(t)

SpecRequests == Init /\ [][NextRequests]_vars

\* ------------------------------------------------ the editorial tables
\* the issue numbers in use as slugs
IssueNumbers == {1, 2}
\* the publish dates editors give: the first instant, and a day later
PublishDates == {0, MinutesPerDay}
\* a foreign key that is null
Null == <<>>

\* an Issue row (is_draft defaults to False)
NewIssue(n, date, draft) ==
    [issue_number |-> n, publish_date |-> date, is_draft |-> draft]

\* a Post row: its issue is Null or <<issue_number>>; order has its default
NewPost(issue, visible) ==
    [issue |-> issue, is_visible |-> visible, order |-> 0]

\* a Newsletter row, of the issue n
NewNewsletter(n) == [issue |-> n]

\* faulty variant: an issue dated this very instant is not published yet
is_published_strict(self, clock) ==
    self.is_draft = FALSE /\ self.publish_date < clock

\* Issue.is_published
is_published(self, clock) ==
    self.is_draft = FALSE /\ self.publish_date <= clock

\* Issue.Meta.ordering: publish_date descending, then issue_number descending
IssueBefore(a, b) ==
    \/ a.publish_date > b.publish_date
    \/ a.publish_date = b.publish_date /\ a.issue_number > b.issue_number

\* Post.Meta.ordering: order ascending, then created_at descending (a post
\* created later has the greater id)
PostBefore(p, a, b) ==
    \/ p[a].order < p[b].order
    \/ p[a].order = p[b].order /\ a > b

RECURSIVE OrderedIssues(_, _)
\* the issues of the set S, in the ordering of Issue
OrderedIssues(i, S) ==
    IF S = {} THEN <<>>
    ELSE LET first == CHOOSE n \in S :
                        \A m \in S \ {n} : IssueBefore(i[n], i[m])
         IN  <<first>> \o OrderedIssues(i, S \ {first})

RECURSIVE OrderedPosts(_, _)
\* the posts of the set S, in the ordering of Post
OrderedPosts(p, S) ==
    IF S = {} THEN <<>>
    ELSE LET first == CHOOSE a \in S : \A b \in S \ {a} : PostBefore(p, a, b)
         IN  <<first>> \o OrderedPosts(p, S \ {first})

\* faulty variant: Issue.delete leaves the newsletters of the issue behind
delete_issue_keeps_newsletters(i, p, nl, n) ==
    [issues |-> [m \in DOMAIN i \ {n} |-> i[m]],
     posts |-> [k \in DOMAIN p |->
                  IF p[k].issue = <<n>> THEN [p[k] EXCEPT !.issue = Null]
                  ELSE p[k]],
     newsletters |-> nl,
     nulled |-> {k \in DOMAIN p : p[k].issue = <<n>>},
     deleted |-> 1]

\* Issue.delete for the issue n: Post.issue is on_delete=SET_NULL and
\* Newsletter.issue is on_delete=CASCADE; the tables after it, the posts
\* it nulled and the number of rows it deleted
delete_issue(i, p, nl, n) ==
    LET gone == {k \in DOMAIN nl : nl[k].issue = n}
    IN  [issues |-> [m \in DOMAIN i \ {n} |-> i[m]],
         posts |-> [k \in DOMAIN p |->
                      IF p[k].issue = <<n>> THEN [p[k] EXCEPT !.issue = Null]
                      ELSE p[k]],
         newsletters |-> [k \in DOMAIN nl \ gone |-> nl[k]],
         nulled |-> {k \in DOMAIN p : p[k].issue = <<n>>},
         deleted |-> 1 + Cardinality(gone)]

\* an editor creates the issue n; issue_number is unique, so a number in
\* use is refused
CreateIssue(n, date, draft) ==
    /\ n \notin DOMAIN issues
    /\ issues' = issues @@ (n :> NewIssue(n, date, draft))
    /\ page' = NoPage
    /\ UNCHANGED <<db, now, mailedAt, confirmed, last, posts, newsletters>>

    /\ UNCHANGED inflight
\* an editor creates a post, in an issue that exists or in none
CreatePost(issue, visible) ==
    /\ Len(posts) < MaxPosts
    /\ IF issue = Null THEN TRUE ELSE issue[1] \in DOMAIN issues
    /\ posts' = Append(posts, NewPost(issue, visible))
    /\ page' = NoPage
    /\ UNCHANGED <<db, now, mailedAt, confirmed, last, issues, newsletters>>

    /\ UNCHANGED inflight
\* an editor creates a newsletter for the issue n, under an id not in use
CreateNewsletter(n) ==
    /\ n \in DOMAIN issues
    /\ \E k \in 1..MaxNewsletters :
         /\ k \notin DOMAIN newsletters
         /\ \A j \in 1..(k - 1) : j \in DOMAIN newsletters
         /\ newsletters' = newsletters @@ (k :> NewNewsletter(n))
    /\ page' = NoPage
    /\ UNCHANGED <<db, now, mailedAt, confirmed, last, issues, posts>>

    /\ UNCHANGED inflight
\* an editor deletes the issue n
DeleteIssue(n) ==
    /\ n \in DOMAIN issues
    /\ LET r == delete_issue(issues, posts, newsletters, n)
       IN  /\ issues' = r.issues
           /\ posts' = r.posts
           /\ newsletters' = r.newsletters
           /\ page' = Page("delete_issue", n, 0, Null,
                           OrderedPosts(posts, r.nulled), r.deleted)
    /\ UNCHANGED <<db, now, mailedAt, confirmed, last>>

    /\ UNCHANGED inflight
\* ------------------------------------------------------------ the pages
\* the published-issues query: is_draft = false and publish_date <= now
released(i, clock) ==
    {n \in DOMAIN i : i[n].is_draft = FALSE /\ i[n].publish_date <= clock}

\* faulty variant: the visible-posts query forgets is_visible
visible_unfiltered(p, n) ==
    {k \in DOMAIN p : p[k].issue = <<n>>}

\* the visible-posts-for-issue query: the posts of the issue n with
\* is_visible = true
visible(p, n) ==
    {k \in DOMAIN p : p[k].issue = <<n>> /\ p[k].is_visible = TRUE}

\* faulty variant: the detail page is served for a draft issue too
Viewable_with_drafts(i, n) == n \in DOMAIN i

\* the issues the detail page is served for: those not draft
Viewable(i, n) == n \in DOMAIN i /\ i[n].is_draft = FALSE

\* the first page of a list paginated by PaginateBy
FirstPage(list) ==
    SubSeq(list, 1, IF Len(list) < PaginateBy THEN Len(list) ELSE PaginateBy)

\* the issue-list page: the published issues, newest first, 15 a page
IssueListView ==
    /\ page' = Page("issue_list", 0, 200, Null,
                    FirstPage(OrderedIssues(issues, released(issues, now))),
                    0)
    /\ UNCHANGED <<db, now, mailedAt, confirmed, last,
                   issues, posts, newsletters>>

    /\ UNCHANGED inflight
\* the issue-detail page of the issue number n: 404 for a draft issue or
\* for no issue, else the issue and its visible posts
IssueDetailView(n) ==
    /\ page' = IF Viewable(issues, n)
               THEN Page("issue_detail", n, 200, <<n>>,
                         OrderedPosts(posts, visible(posts, n)), 0)
               ELSE Page("issue_detail", n, 404, Null, <<>>, 0)
    /\ UNCHANGED <<db, now, mailedAt, confirmed, last,
                   issues, posts, newsletters>>

    /\ UNCHANGED inflight
\* what an editor can put in Post.issue
IssueRefs == {Null} \cup {<<n>> : n \in IssueNumbers}

\* editors fill the tables and visitors read the pages, at any instants
NextPages ==
    \/ \E t \in Instants : Advance(t)
    \/ \E n \in IssueNumbers, date \in PublishDates, draft \in BOOLEAN :
         CreateIssue(n, date, draft)
    \/ \E issue \in IssueRefs, v \in BOOLEAN : CreatePost(issue, v)
    \/ \E n \in IssueNumbers : DeleteIssue(n)
    \/ IssueListView
    \/ \E n \in IssueNumbers : IssueDetailView(n)

SpecPages == Init /\ [][NextPages]_vars

\* editors create issues, posts and newsletters and delete issues
NextEditing ==
    \/ \E n \in IssueNumbers, date \in PublishDates, draft \in BOOLEAN :
         CreateIssue(n, date, draft)
    \/ \E issue \in IssueRefs, v \in BOOLEAN : CreatePost(issue, v)
    \/ \E n \in IssueNumbers : CreateNewsletter(n)
    \/ \E n \in IssueNumbers : DeleteIssue(n)

SpecEditing == Init /\ [][NextEditing]_vars

\* ------------------------------------------- requests run interleaved
\* Model.save of the in-memory subscriber: every field of the stored row
\* is overwritten with the in-memory value
save(d, self) == [d EXCEPT ![self.email_address] = self]

\* whether save raises IntegrityError: another row holds the token
SaveRefused(d, self) ==
    \E e \in DOMAIN d \ {self.email_address} : d[e].token = self.token

\* an e-mail handed to the transport: the address, the link and the instant
Mail(self, clock) ==
    [to |-> self.email_address, url |-> get_verification_url(self),
     at |-> clock]

\* a request loads the subscriber of the address e into memory, to call
\* send_verification_email(created) on it
Load(r, e, created) ==
    /\ requests[r].pc = "idle"
    /\ e \in DOMAIN db
    /\ requests' = [requests EXCEPT ![r] = Request("check", db[e], created)]
    /\ UNCHANGED <<db, now, mailedAt, confirmed, last, content, outbox>>

\* send_verification_email up to the early return: the throttle test, on
\* the in-memory verification_sent_date
CheckThrottle(r) ==
    /\ requests[r].pc = "check"
    /\ requests' = [requests EXCEPT ![r].pc =
                      IF Throttled(requests[r].self, now) THEN "done"
                      ELSE IF ~requests[r].created THEN "reset"
                      ELSE "stamp"]
    /\ UNCHANGED <<db, now, mailedAt, confirmed, last, content, outbox>>

\* reset_token up to the assignment: the loop ends with a token that no
\* stored subscriber holds at the time of the query
DrawToken(r) ==
    /\ requests[r].pc = "reset"
    /\ \E t \in ResetTokenDraws(db) :
         requests' = [requests EXCEPT ![r].self.token = t,
                                      ![r].pc = "save_token"]
    /\ UNCHANGED <<db, now, mailedAt, confirmed, last, content, outbox>>

\* the self.save() that ends reset_token; the request ends there when the
\* unique constraint refuses the token
SaveToken(r) ==
    /\ requests[r].pc = "save_token"
    /\ IF SaveRefused(db, requests[r].self)
       THEN /\ requests' = [requests EXCEPT ![r].pc = "done"]
            /\ db' = db
       ELSE /\ requests' = [requests EXCEPT ![r].pc = "stamp"]
            /\ db' = save(db, requests[r].self)
    /\ confirmed' = confirmed \cap Stored(db')
    /\ UNCHANGED <<now, mailedAt, last, content, outbox>>

\* self.verification_sent_date = timezone.now(): the clock is read and the
\* in-memory date set; nothing is stored yet
Stamp(r) ==
    /\ requests[r].pc = "stamp"
    /\ requests' = [requests EXCEPT
                      ![r].self.verification_sent_date = <<now>>,
                      ![r].pc = "save"]
    /\ UNCHANGED <<db, now, mailedAt, confirmed, last, content, outbox>>

\* the self.save() that follows: the row is overwritten with the in-memory
\* subscriber, whose date is that of the earlier clock read
SaveStamped(r) ==
    /\ requests[r].pc = "save"
    /\ IF SaveRefused(db, requests[r].self)
       THEN /\ requests' = [requests EXCEPT ![r].pc = "done"]
            /\ db' = db
       ELSE /\ requests' = [requests EXCEPT ![r].pc = "send"]
            /\ db' = save(db, requests[r].self)
    /\ confirmed' = confirmed \cap Stored(db')
    /\ UNCHANGED <<now, mailedAt, last, content, outbox>>

\* send_subscription_verification_email(self.get_verification_url(),
\* self.email_address)
Dispatch(r) ==
    /\ requests[r].pc = "send"
    /\ outbox' = Append(outbox, Mail(requests[r].self, now))
    /\ mailedAt' = [mailedAt EXCEPT ![requests[r].self.email_address] = <<now>>]
    /\ requests' = [requests EXCEPT ![r].pc = "done"]
    /\ UNCHANGED <<db, now, confirmed, last, content>>

\* subscribers are created and requests run send_verification_email on
\* their own copies of the rows, their steps interleaved, at any instants
NextInterleaved ==
    \/ \E t \in Instants : Advance(t)
    \/ \E e \in Emails, t \in Tokens : Create(e, t)
    \/ \E r \in RequestIds, e \in Emails, created \in BOOLEAN :
         Load(r, e, created)
    \/ \E r \in RequestIds : CheckThrottle(r)
    \/ \E r \in RequestIds : DrawToken(r)
    \/ \E r \in RequestIds : SaveToken(r)
    \/ \E r \in RequestIds : Stamp(r)
    \/ \E r \in RequestIds : SaveStamped(r)
    \/ \E r \in RequestIds : Dispatch(r)

SpecInterleaved == Init /\ [][NextInterleaved]_vars

\* =============================================================== claims
\* Every action writes its own name in last.op, so a step that changes the
\* state and ends with last.op = op, last.email = e is a step of that call
\* or request for e; Called(op, e) says so of a step.
Called(op, e) == last'.op = op /\ last'.email = e

ExpireMinutes == ExpireDays * MinutesPerDay

SentDate(self) == self.verification_sent_date

\* C1: verify() returns success only if token_expired() is false at the
\* time of the call, and right after a successful verify() the stored row
\* has verified and subscribed both true.  (last is the call just made: any
\* later step, the clock's included, replaces it, and verify leaves the
\* date it tests untouched.)
C1_VerifyOnlyUnexpired ==
    (last.op = "verify" /\ last.ret = "True") =>
        /\ ~token_expired(db[last.email], now)
        /\ SentDate(db[last.email]) # NoDate
        /\ now < SentDate(db[last.email])[1] + ExpireMinutes
        /\ db[last.email].verified
        /\ db[last.email].subscribed

C1_Witness ==
    /\ last.op = "verify"
    /\ last.ret = "True"
    /\ now = ExpireMinutes - 1
    /\ db[last.email].verified /\ db[last.email].subscribed

\* C2: unsubscribe() changes the row only when subscribed was true before
\* the call: then it returns success and verified and subscribed are both
\* false afterwards, nothing else of the table changing; when subscribed was
\* false it returns no success and the table is left exactly as it was.
C2_UnsubscribeContract ==
    [][\A e \in Emails :
         Called("unsubscribe", e) =>
            IF db[e].subscribed
            THEN /\ last'.ret = "True"
                 /\ db' = [db EXCEPT ![e].verified = FALSE,
                                     ![e].subscribed = FALSE]
                 /\ ~db'[e].verified /\ ~db'[e].subscribed
            ELSE /\ last'.ret = "None"
                 /\ db' = db]_vars

C2_Witness ==
    /\ last.op = "unsubscribe"
    /\ last.ret = "True"
    /\ ~db[last.email].verified /\ ~db[last.email].subscribed
    /\ SentDate(db[last.email]) # NoDate

\* C3: two calls of send_verification_email that dispatch an e-mail to the
\* same subscriber are more than 5 minutes apart.  Each dispatch is compared
\* with the one before it to the same address; the clock never runs back, so
\* this bounds every pair.
C3_DispatchesApart ==
    (last.mailed /\ last.prevMail # NoDate) =>
        now - last.prevMail[1] > ThrottleMinutes

C3_Witness ==
    /\ last.op = "send_verification_email"
    /\ last.mailed
    /\ last.prevMail # NoDate
    /\ now - last.prevMail[1] = ThrottleMinutes + 1

\* C4: a step that gives a subscriber another token never gives it one that
\* a stored subscriber held (reset_token draws again until no stored token
\* matches), and the tokens of the stored subscribers stay pairwise distinct.
C4_TokensDistinct ==
    [][/\ \A e \in DOMAIN db :
             db'[e].token # db[e].token => db'[e].token \notin Stored(db)
       /\ \A e1, e2 \in DOMAIN db' :
             e1 # e2 => db'[e1].token # db'[e2].token]_vars

C4_Witness ==
    /\ last.op = "reset_token"
    /\ Cardinality(DOMAIN db) = 2
    /\ db[last.email].token = last.token

\* C5: token_expired() is true exactly when verification_sent_date is unset
\* or verification_sent_date + the expiry is at or before the current time:
\* true at the expiry instant, false at every instant before it.
C5_TokenExpiredExact ==
    (last.op = "token_expired") =>
        LET d == SentDate(db[last.email])
        IN  /\ last.ret \in {"True", "False"}
            /\ (last.ret = "True") <=> (d = NoDate \/ now - d[1] >= ExpireMinutes)
            /\ (d # NoDate /\ now = d[1] + ExpireMinutes) => last.ret = "True"
            /\ (d # NoDate /\ now < d[1] + ExpireMinutes) => last.ret = "False"

C5_Witness ==
    /\ last.op = "token_expired"
    /\ SentDate(db[last.email]) # NoDate
    /\ now = SentDate(db[last.email])[1] + ExpireMinutes
    /\ last.ret = "True"

\* C6: a send_verification_email(created) call that is not throttled
\* replaces the token exactly when created is false, then stamps
\* verification_sent_date with the current time in the stored row, then
\* hands the transport the URL of the token the subscriber then holds.
\* (last.created is the argument of the call.)
C6_SendSteps ==
    [][\A e \in Emails :
         (/\ Called("send_verification_email", e)
          /\ ~(/\ SentDate(db[e]) # NoDate
               /\ now - SentDate(db[e])[1] <= ThrottleMinutes)) =>
            /\ (db'[e].token # db[e].token) <=> ~last'.created
            /\ SentDate(db'[e]) = <<now>>
            /\ last'.mailed
            /\ mailedAt'[e] = <<now>>
            /\ last'.url = <<"newsletter_subscribe_confirm", db'[e].token>>]_vars

C6_Witness ==
    /\ last.op = "send_verification_email"
    /\ last.mailed
    /\ ~last.created
    /\ db[last.email].token # last.token
    /\ last.url = <<"newsletter_subscribe_confirm", db[last.email].token>>
    /\ SentDate(db[last.email]) = <<now>>

AlreadySubscribedMessage == "You have already subscribed to the newsletter."

DoesNotExistMessage == "Subscriber with this email address does not exist."

\* a token some stored subscriber holds with its expiry passed
ExpiredToken(t) ==
    \E e \in DOMAIN db : db[e].token = t /\ token_expired(db[e], now)

\* C7: a subscription-confirm request whose token is expired, or was
\* already used for a successful confirmation, is answered with 404 and
\* makes no subscriber verified or subscribed, after any sequence of
\* subscribe, confirm and unsubscribe requests.
C7_UsedOrExpiredIs404 ==
    [][\A t \in Tokens :
         (ConfirmView(t) /\ (t \in confirmed \/ ExpiredToken(t))) =>
            /\ last'.status = 404
            /\ db' = db]_vars

\* the part of C7 about expired tokens alone
C7_ExpiredIs404 ==
    [][\A t \in Tokens :
         (ConfirmView(t) /\ ExpiredToken(t)) =>
            /\ last'.status = 404
            /\ db' = db]_vars

\* C8: a subscribe request (form or AJAX) for the address of a subscriber
\* who is verified and subscribed dispatches no e-mail, answers "already
\* subscribed" (success false), and leaves the table as it was: no second
\* subscriber, and the subscriber's flags and token unchanged.
C8_AlreadySubscribed ==
    [][\A x \in Emails :
         (/\ Called("subscribe", x)
          /\ x \in DOMAIN db
          /\ db[x].verified /\ db[x].subscribed) =>
            /\ ~last'.mailed
            /\ mailedAt' = mailedAt
            /\ last'.message = AlreadySubscribedMessage
            /\ last'.ret = "False"
            /\ last'.status = (IF last'.ajax THEN 200 ELSE 302)
            /\ db' = db]_vars

C8_Witness ==
    /\ last.op = "subscribe"
    /\ last.ajax
    /\ last.message = AlreadySubscribedMessage
    /\ last.email \in DOMAIN db
    /\ db[last.email].verified /\ db[last.email].subscribed
    /\ Cardinality(DOMAIN db) = 2

\* C9: a subscribe request with a valid address that no subscriber has
\* creates exactly one subscriber for it, not verified and not subscribed,
\* and calls send_verification_email once with created = true, so that the
\* token issued at creation is the one mailed; a subscribe request with an
\* invalid address creates no subscriber and dispatches no e-mail.
C9_SubscribeCreates ==
    [][\A x \in Inputs, ajax \in BOOLEAN :
         SubscribeView(x, ajax) =>
            /\ (IsValidEmail(x) /\ x \notin DOMAIN db) =>
                  /\ DOMAIN db' = DOMAIN db \cup {x}
                  /\ \A e \in DOMAIN db : db'[e] = db[e]
                  /\ ~db'[x].verified /\ ~db'[x].subscribed
                  /\ last'.created
                  /\ last'.mailed
                  /\ last'.url = <<"newsletter_subscribe_confirm", db'[x].token>>
            /\ ~IsValidEmail(x) =>
                  /\ db' = db
                  /\ ~last'.mailed
                  /\ mailedAt' = mailedAt]_vars

\* what C9 says, but for the request whose new row draws a stored token:
\* the insert is refused (IntegrityError), nothing is created or dispatched
C9_UnlessTokenCollides ==
    [][\A x \in Emails, ajax \in BOOLEAN :
         (SubscribeView(x, ajax) /\ x \notin DOMAIN db) =>
            IF last'.status = 500
            THEN /\ last'.token \in Stored(db)
                 /\ db' = db
                 /\ ~last'.mailed
            ELSE /\ DOMAIN db' = DOMAIN db \cup {x}
                 /\ \A e \in DOMAIN db : db'[e] = db[e]
                 /\ ~db'[x].verified /\ ~db'[x].subscribed
                 /\ last'.created
                 /\ last'.mailed
                 /\ last'.url = <<"newsletter_subscribe_confirm", db'[x].token>>]_vars

\* C10: an unsubscribe request (form or AJAX) for an address that has no
\* subscriber, or whose subscriber is not subscribed, answers "does not
\* exist" as a normal response (success false), creates no subscriber and
\* leaves every stored subscriber as it was.
C10_UnsubscribeUnknown ==
    [][\A x \in Emails :
         (/\ Called("unsubscribe", x)
          /\ (x \notin DOMAIN db \/ ~db[x].subscribed)) =>
            /\ last'.message = DoesNotExistMessage
            /\ last'.ret = "False"
            /\ last'.status = (IF last'.ajax THEN 200 ELSE 302)
            /\ db' = db
            /\ mailedAt' = mailedAt]_vars

C10_Witness ==
    /\ last.op = "unsubscribe"
    /\ last.message = DoesNotExistMessage
    /\ last.ajax
    /\ last.email \in DOMAIN db
    /\ ~db[last.email].subscribed
    /\ SentDate(db[last.email]) # NoDate

\* the entries of a list
Listed(list) == {list[k] : k \in 1..Len(list)}

\* C11: the issue list contains no issue with is_draft true and no issue
\* whose publish_date is later than now; every issue it lists exists and
\* satisfies is_published().
C11_ListOnlyPublished ==
    (page.view = "issue_list") =>
        /\ page.status = 200
        /\ \A n \in Listed(page.object_list) :
             /\ n \in DOMAIN issues
             /\ issues[n].is_draft = FALSE
             /\ ~(issues[n].publish_date > now)
             /\ is_published(issues[n], now)

C11_Witness ==
    /\ page.view = "issue_list"
    /\ \E n \in Listed(page.object_list) : issues[n].publish_date = now
    /\ \E n \in DOMAIN issues \ Listed(page.object_list) :
         issues[n].is_draft /\ issues[n].publish_date < now

\* C12: the issue-detail page of a draft issue is a 404 that carries neither
\* the issue nor any post, whatever the publish_date of the issue; that of
\* an issue not draft whose publish_date is past is served with 200.
C12_DraftIs404 ==
    (page.view = "issue_detail" /\ page.issue_number \in DOMAIN issues) =>
        LET i == issues[page.issue_number]
        IN  /\ i.is_draft =>
                 /\ page.status = 404
                 /\ page.issue = Null
                 /\ page.object_list = <<>>
            /\ (~i.is_draft /\ i.publish_date < now) =>
                 /\ page.status = 200
                 /\ page.issue = <<page.issue_number>>

C12_Witness ==
    /\ page.view = "issue_detail"
    /\ page.status = 404
    /\ page.issue_number \in DOMAIN issues
    /\ issues[page.issue_number].is_draft
    /\ issues[page.issue_number].publish_date < now
    /\ \E k \in DOMAIN posts :
         posts[k].issue = <<page.issue_number>> /\ posts[k].is_visible

\* C13: the post list of an issue's detail page contains no post with
\* is_visible false; every post it shows exists, belongs to that issue and
\* is visible.
C13_OnlyVisiblePosts ==
    (page.view = "issue_detail") =>
        \A k \in Listed(page.object_list) :
            /\ k \in DOMAIN posts
            /\ posts[k].is_visible = TRUE
            /\ posts[k].issue = <<page.issue_number>>
            /\ page.status = 200

C13_Witness ==
    /\ page.view = "issue_detail"
    /\ page.status = 200
    /\ Len(page.object_list) = 1
    /\ \E k \in DOMAIN posts :
         posts[k].issue = <<page.issue_number>> /\ ~posts[k].is_visible

\* the issue n is deleted by the step
Deleted(n) == n \in DOMAIN issues /\ n \notin DOMAIN issues'

\* every Post.issue and Newsletter.issue names a stored issue
References ==
    /\ \A k \in DOMAIN posts :
         posts[k].issue = Null \/ posts[k].issue[1] \in DOMAIN issues
    /\ \A k \in DOMAIN newsletters : newsletters[k].issue \in DOMAIN issues

\* C14: deleting an Issue deletes every Newsletter of that issue and no
\* other, and deletes no Post: each post of the issue is kept with issue
\* null and its other fields unchanged, every other row is untouched; and
\* in every state no Newsletter or Post references a missing Issue.
C14_DeleteIssue ==
    /\ []References
    /\ [][\A n \in IssueNumbers :
            Deleted(n) =>
              /\ DOMAIN issues' = DOMAIN issues \ {n}
              /\ \A m \in DOMAIN issues' : issues'[m] = issues[m]
              /\ DOMAIN newsletters' =
                    {k \in DOMAIN newsletters : newsletters[k].issue # n}
              /\ \A k \in DOMAIN newsletters' :
                    newsletters'[k] = newsletters[k]
              /\ DOMAIN posts' = DOMAIN posts
              /\ \A k \in DOMAIN posts :
                    IF posts[k].issue = <<n>>
                    THEN posts'[k] = [posts[k] EXCEPT !.issue = Null]
                    ELSE posts'[k] = posts[k]]_vars

C14_Witness ==
    /\ page.view = "delete_issue"
    /\ page.deleted = 2
    /\ Len(page.object_list) = 1
    /\ posts[page.object_list[1]].issue = Null
    /\ posts[page.object_list[1]].is_visible
    /\ \E k \in DOMAIN posts : posts[k].issue # Null
    /\ newsletters = <<>>

\* C15: a verify() call made while token_expired() is true fails and is a
\* no-op: it returns no success and leaves the table (verified, subscribed,
\* token and verification_sent_date of the subscriber) exactly as it was.
C15_ExpiredVerifyNoOp ==
    [][\A e \in Emails :
         (Called("verify", e) /\ token_expired(db[e], now)) =>
            /\ last'.ret = "None"
            /\ db' = db]_vars

C15_Witness ==
    /\ last.op = "verify"
    /\ last.ret = "None"
    /\ SentDate(db[last.email]) # NoDate
    /\ now = SentDate(db[last.email])[1] + ExpireMinutes
    /\ ~db[last.email].verified /\ ~db[last.email].subscribed

\* C16: for subscribers created with verified and subscribed both false,
\* verified equals subscribed in every state that verify, unsubscribe,
\* reset_token and send_verification_email calls reach.
C16_FlagsTogether ==
    \A e \in DOMAIN db : db[e].verified = db[e].subscribed

C16_Witness ==
    /\ last.op = "send_verification_email"
    /\ last.mailed
    /\ db[last.email].verified /\ db[last.email].subscribed
    /\ \E e \in DOMAIN db : ~db[e].verified /\ ~db[e].subscribed

\* C17: a throttled send_verification_email call (verification_sent_date
\* set and no older than 5 minutes, exactly 5 minutes included) changes
\* nothing: no token rotation even when created is false, no new stamp,
\* flags untouched, no e-mail dispatched.
C17_ThrottledNoOp ==
    [][\A e \in Emails :
         (/\ Called("send_verification_email", e)
          /\ SentDate(db[e]) # NoDate
          /\ now - SentDate(db[e])[1] <= ThrottleMinutes) =>
            /\ db' = db
            /\ mailedAt' = mailedAt
            /\ ~last'.mailed
            /\ last'.url = NoUrl]_vars

C17_Witness ==
    /\ last.op = "send_verification_email"
    /\ ~last.mailed
    /\ ~last.created
    /\ SentDate(db[last.email]) # NoDate
    /\ now - SentDate(db[last.email])[1] = ThrottleMinutes
    /\ db[last.email].token = last.token

\* C18: after a send_verification_email(created = false) call that
\* dispatches an e-mail, the subscriber's token differs from the one it held
\* before the call and the old token is the token of no stored subscriber.
C18_OldTokenRetired ==
    [][\A e \in Emails :
         (/\ Called("send_verification_email", e)
          /\ last'.mailed
          /\ ~last'.created) =>
            /\ db'[e].token # db[e].token
            /\ db[e].token \notin Stored(db')
            /\ last'.url # <<"newsletter_subscribe_confirm", db[e].token>>]_vars

C18_Witness ==
    /\ last.op = "send_verification_email"
    /\ last.mailed
    /\ ~last.created
    /\ last.prevMail # NoDate
    /\ last.token \notin Stored(db)
    /\ Cardinality(DOMAIN db) = 2

\* C19: verify() and unsubscribe() leave the token, the e-mail address and
\* verification_sent_date of the subscriber (and every other row) as they
\* were, so the expiry of a token runs from the last dispatch alone.
C19_TokenAndDateKept ==
    [][\A e \in Emails :
         (Called("verify", e) \/ Called("unsubscribe", e)) =>
            /\ DOMAIN db' = DOMAIN db
            /\ db'[e].token = db[e].token
            /\ db'[e].email_address = db[e].email_address
            /\ SentDate(db'[e]) = SentDate(db[e])
            /\ \A o \in DOMAIN db \ {e} : db'[o] = db[o]
            /\ mailedAt' = mailedAt]_vars

C19_Witness ==
    /\ last.op = "unsubscribe"
    /\ last.ret = "True"
    /\ db[last.email].token = last.token
    /\ SentDate(db[last.email]) # NoDate
    /\ now > SentDate(db[last.email])[1]

\* C20: the expiry being positive, a send_verification_email call that
\* dispatches leaves token_expired() false; a verify() made strictly before
\* verification_sent_date + the expiry succeeds; and a subscriber whose
\* verification_sent_date is unset is not verified and verify() fails on it.
C20_VerifyWindow ==
    /\ ExpireDays > 0
    /\ \A e \in DOMAIN db : SentDate(db[e]) = NoDate => ~db[e].verified
    /\ (last.op = "send_verification_email" /\ last.mailed) =>
          ~token_expired(db[last.email], now)
    /\ (last.op = "verify") =>
          LET d == SentDate(db[last.email])
          IN  /\ (d # NoDate /\ now < d[1] + ExpireMinutes) =>
                    /\ last.ret = "True"
                    /\ db[last.email].verified
              /\ (d = NoDate) =>
                    /\ last.ret = "None"
                    /\ ~db[last.email].verified

C20_Witness ==
    /\ last.op = "verify"
    /\ last.ret = "True"
    /\ SentDate(db[last.email]) # NoDate
    /\ SentDate(db[last.email])[1] > 0
    /\ now > SentDate(db[last.email])[1]
    /\ \E e \in DOMAIN db : SentDate(db[e]) = NoDate

\* the e-mails dispatched to the address e, in order
MailsTo(e) == SelectSeq(outbox, LAMBDA m : m.to = e)

\* no request stands inside send_verification_email
Quiet == \A r \in RequestIds : requests[r].pc \in {"idle", "done"}

\* C21: when requests run send_verification_email interleaved on their own
\* in-memory copies of one subscriber row, any two e-mails dispatched to
\* the address are more than 5 minutes apart, and once the requests have
\* ended the stored token is the token of the last e-mail dispatched.
C21_OneMailLastToken ==
    \A e \in DOMAIN db :
        LET mails == MailsTo(e)
        IN  /\ \A i, j \in DOMAIN mails :
                 i < j => mails[j].at - mails[i].at > ThrottleMinutes
            /\ (Quiet /\ mails # <<>>) =>
                 mails[Len(mails)].url = get_verification_url(db[e])

\* C21, first half alone: two e-mails to one address are more than 5
\* minutes apart
C21_OneMailInWindow ==
    \A e \in DOMAIN db :
        \A i, j \in DOMAIN MailsTo(e) :
            i < j => MailsTo(e)[j].at - MailsTo(e)[i].at > ThrottleMinutes

\* C21, second half alone: once the requests have ended the stored token
\* is that of the last e-mail dispatched
C21_LastTokenStored ==
    \A e \in DOMAIN db :
        (Quiet /\ MailsTo(e) # <<>>) =>
            MailsTo(e)[Len(MailsTo(e))].url = get_verification_url(db[e])

====
